---- MODULE Spec2Model ----
(***************************************************************************)
(* Model of the replay package: request fingerprinting (HashRequest,       *)
(* RequestToBuff, CloneRequestWithBody), the HAR templates (har.go) and    *)
(* the ReplayTransport (NewReplayTransport, its options, RoundTrip).       *)
(*                                                                         *)
(* A request is the record [Method, URL, Header, Body].  Header is the     *)
(* map of http.Header: a function from the names present to the list of    *)
(* their values.  Body is a stream: nil, or the bytes still to be read and *)
(* whether the read ends in an error rather than in EOF.  Header names     *)
(* range over ordinary headers, those DumpRequestOut writes as they are.   *)
(*                                                                         *)
(* Specifications: Spec (build a transport, then RoundTrips), SpecHash     *)
(* (HashRequest / RequestToBuff on one request object), SpecConc           *)
(* (RoundTrips interleaved statement by statement), SpecSingle             *)
(* (SingleResponseTransport), SpecMiddleware (the recorder middleware),    *)
(* SpecHar (a HAR template made into a request and fingerprinted),         *)
(* SpecRecorder (a transport with a RequestRecorder) and SpecConcRecorder  *)
(* (RoundTrips interleaved on such a transport).  Each holds the variables *)
(* of the others at their idle values.                                     *)
(***************************************************************************)
EXTENDS Integers, Sequences, FiniteSets, TLC

VARIABLES
    opts,       \* NewReplayTransport: the options it was called with
    pc,         \* "new" before NewReplayTransport has run, "ready" after
    rt,         \* the *ReplayTransport it returned
    err,        \* the error it returned
    call,       \* the last RoundTrip: request given, request left, response, error
    kept,       \* an earlier RoundTrip call, kept to compare later calls with
    req0,       \* fingerprinting: the request as first presented
    reqObj,     \* fingerprinting: the same request object after the calls so far
    filterArgs, \* fingerprinting: the filters passed to every call
    results,    \* fingerprinting: what each call returned
    procs,      \* concurrent RoundTrips: each call's locals and the step it is at
    single,     \* the SingleResponseTransport, its last call and the response's reader
    mw,         \* the recorder middleware: its params, the record directory, its last request
    har,        \* a HAR request template, the request made from it and its fingerprint
    recorder    \* the RequestRecorder passed to WithRequestRecorder, and the RoundTrips made

vars == <<opts, pc, rt, err, call, kept, req0, reqObj, filterArgs, results, procs, single, mw, har,
         recorder>>
transportVars == <<opts, pc, rt, err, call, kept>>
hashVars == <<req0, reqObj, filterArgs, results>>
concVars == <<procs>>
singleVars == <<single>>
middlewareVars == <<mw>>
harVars == <<har>>
recorderVars == <<recorder>>

\* ------------------------------------------------------------------ bounds
MaxOpts == 2
MaxFilters == 2
MaxCalls == 3
MaxProcs == 2
MaxHeaders == 3

\* ------------------------------------------------------------------ errors
\* An error value: nil, or its text as the literal messages, the fingerprints
\* formatted into it and the diagnostic report sections it embeds.
NilErr == [isNil |-> TRUE, msg |-> <<>>, keys |-> <<>>, report |-> <<>>]

NewError(text) == [isNil |-> FALSE, msg |-> <<text>>, keys |-> <<>>, report |-> <<>>]

\* errors.Wrap: nil stays nil, otherwise "message: cause".
Wrap(e, message) ==
    IF e.isNil THEN NilErr ELSE [e EXCEPT !.msg = <<message>> \o @]

\* errors.Wrapf with one %s argument: nil stays nil.
Wrapf(e, message, arg) ==
    IF e.isNil THEN NilErr
    ELSE [e EXCEPT !.msg = <<message>> \o @, !.keys = <<arg>> \o @]

\* The error's text contains the fingerprint k.
ErrorContains(e, k) ==
    /\ ~e.isNil
    /\ \/ \E i \in DOMAIN e.keys : e.keys[i] = k
       \/ \E i \in DOMAIN e.report : e.report[i].cacheKey = k \/ e.report[i].reqKey = k

\* ------------------------------------------------------------------ bodies
NilBody == [isNil |-> TRUE, data |-> <<>>, fail |-> FALSE]

Stream(b) == [isNil |-> FALSE, data |-> b, fail |-> FALSE]

FailingStream(b) == [isNil |-> FALSE, data |-> b, fail |-> TRUE]

\* bytes.Buffer.ReadFrom: the bytes read until EOF or until the read error.
ReadFrom(body) == body.data

\* ------------------------------------------------------------------ headers
EmptyHeader == [n \in {} |-> <<>>]

HeaderAdd(h, k, v) ==
    [n \in (DOMAIN h) \cup {k} |->
        IF n = k THEN (IF k \in DOMAIN h THEN Append(h[k], v) ELSE <<v>>) ELSE h[n]]

HeaderDel(h, k) == [n \in (DOMAIN h) \ {k} |-> h[n]]

RECURSIVE AddHeaders(_, _)
AddHeaders(ht, h) ==
    IF h = <<>> THEN ht
    ELSE AddHeaders(HeaderAdd(ht, Head(h).Name, Head(h).Value), Tail(h))

\* The loop left after its first header.
ToHTTPHeaderFirstOnly(h) ==
    IF h = <<>> THEN EmptyHeader ELSE HeaderAdd(EmptyHeader, Head(h).Name, Head(h).Value)

\* Headers.ToHTTPHeader: the list of the HAR file folded into a map.
ToHTTPHeader(h) == AddHeaders(EmptyHeader, h)

\* ------------------------------------------------------------------ har.go
\* url.Parse on the HAR's url text <<scheme, host, path>>.
ParseURL(u) == [Scheme |-> u[1], Host |-> u[2], Path |-> u[3]]

\* Request.Factory
RequestFactory(r) ==
    [Method |-> r.Method,
     URL    |-> ParseURL(r.Url),
     Header |-> ToHTTPHeader(r.Headers),
     Body   |-> Stream(r.PostData.Text)]

\* base64.StdEncoding.DecodeString: a text is a list of symbols, the base64
\* symbol of byte b is 64 + b; decoding stops at the first symbol that is not
\* base64 and returns the bytes decoded before it.
Base64Symbol(b) == 64 + b

RECURSIVE DecodeString(_)
DecodeString(text) ==
    IF text = <<>> \/ Head(text) < 64 THEN <<>>
    ELSE <<Head(text) - 64>> \o DecodeString(Tail(text))

\* Response.Factory
ResponseFactory(r) ==
    LET body == DecodeString(r.Content.Text)
    IN  [isNil         |-> FALSE,
         StatusCode    |-> r.Status,
         Header        |-> ToHTTPHeader(r.Headers),
         Body          |-> Stream(body),
         ContentLength |-> Len(body)]

NilResponse ==
    [isNil |-> TRUE, StatusCode |-> 0, Header |-> EmptyHeader,
     Body |-> NilBody, ContentLength |-> 0]

\* The original left with its body drained: the body is not put back.
CloneRequestWithBodyDrained(r) ==
    IF r.Body.isNil THEN [orig |-> r, clone |-> r]
    ELSE [orig  |-> [r EXCEPT !.Body = Stream(<<>>)],
          clone |-> [r EXCEPT !.Body = Stream(ReadFrom(r.Body))]]

\* CloneRequestWithBody: the clone, and r as the call leaves it.
CloneRequestWithBody(r) ==
    IF r.Body.isNil THEN [orig |-> r, clone |-> r]
    ELSE LET b == ReadFrom(r.Body)
         IN  [orig  |-> [r EXCEPT !.Body = Stream(b)],
              clone |-> [r EXCEPT !.Body = Stream(b)]]

\* ------------------------------------------------------------------ filters
\* A RequestFilter is a function on *http.Request; the filters of the model:
DelHeaderFilter(key) == [op |-> "Del", key |-> key]

AddHeaderFilter(key, val) == [op |-> "Add", key |-> key, val |-> val]

SetPathFilter(path) == [op |-> "SetPath", path |-> path]

SetBodyFilter(data) == [op |-> "SetBody", data |-> data]

\* A filter that takes the named headers out of the request and adds them
\* back, with their values, in the order of names.
ReorderFilter(names) == [op |-> "Reorder", names |-> names]

RECURSIVE AddValues(_, _, _)
AddValues(h, k, values) ==
    IF values = <<>> THEN h
    ELSE AddValues(HeaderAdd(h, k, Head(values)), k, Tail(values))

RECURSIVE ReorderHeaders(_, _, _)
ReorderHeaders(h, names, was) ==
    IF names = <<>> THEN h
    ELSE IF Head(names) \notin DOMAIN was THEN ReorderHeaders(h, Tail(names), was)
    ELSE ReorderHeaders(AddValues(HeaderDel(h, Head(names)), Head(names), was[Head(names)]),
                        Tail(names), was)

\* rec.intercept as a filter: the method value of a recorder registered once,
\* with the filters the recorder holds.  It leaves the request with its body
\* put back by the two calls it makes.
InterceptFilter(filters) == [op |-> "intercept", filters |-> filters]

\* filter(request)
ApplyFilter(f, request) ==
    CASE f.op = "Del"     -> [request EXCEPT !.Header = HeaderDel(@, f.key)]
      [] f.op = "Add"     -> [request EXCEPT !.Header = HeaderAdd(@, f.key, f.val)]
      [] f.op = "SetPath" -> [request EXCEPT !.URL.Path = f.path]
      [] f.op = "SetBody" -> [request EXCEPT !.Body = Stream(f.data)]
      [] f.op = "Reorder" -> [request EXCEPT !.Header = ReorderHeaders(@, f.names, @)]
      [] f.op = "intercept" ->
            CloneRequestWithBody(CloneRequestWithBody(request).orig).orig

\* The loop that forgets to call the filters.
ApplyFiltersSkipped(request, filters) == request

\* for _, filter := range filters { filter(request) }
RECURSIVE ApplyFilters(_, _)
ApplyFilters(request, filters) ==
    IF filters = <<>> THEN request
    ELSE ApplyFilters(ApplyFilter(Head(filters), request), Tail(filters))

\* ------------------------------------------------------------------ hashing
\* httputil.DumpRequestOut(request, body): the wire form of the request, or the
\* error of the transport that refuses a URL without http(s) scheme or host.
\* The wire form has the method, the path, the host, the headers (written by
\* name, so as the map holds them) and, when body is set, the body bytes; the
\* scheme is not part of it.  The Host line and the body framing are taken
\* from the URL and the body: requests carry no Host or ContentLength field.
DumpRequestOut(request, body) ==
    IF request.URL.Scheme \notin {"http", "https"}
    THEN [data |-> <<>>, err |-> NewError("unsupported protocol scheme")]
    ELSE IF request.URL.Host = ""
    THEN [data |-> <<>>, err |-> NewError("http: no Host in request URL")]
    ELSE [data |-> <<[Method |-> request.Method,
                      Path   |-> request.URL.Path,
                      Host   |-> request.URL.Host,
                      Header |-> request.Header,
                      Body   |-> IF body THEN request.Body.data ELSE <<>>]>>,
          err  |-> NilErr]

\* hex.EncodeToString(sha256(data)): one key per byte string.
Sha256Hex(data) == <<"sha256", data>>

EmptyKey == <<>>

\* The filters run on r itself, not on the clone.
HashRequestOnOriginal(r, filters) ==
    LET c       == CloneRequestWithBody(r)
        request == ApplyFilters(c.orig, filters)
        dump    == DumpRequestOut(request, ~c.orig.Body.isNil)
    IN  [hashKey |-> IF dump.err.isNil THEN Sha256Hex(dump.data) ELSE EmptyKey,
         err     |-> dump.err,
         r       |-> request]

\* HashRequest: the key, the error, and r as the call leaves it.
HashRequest(r, filters) ==
    LET c       == CloneRequestWithBody(r)
        request == ApplyFilters(c.clone, filters)
        dump    == DumpRequestOut(request, ~c.orig.Body.isNil)
    IN  [hashKey |-> IF dump.err.isNil THEN Sha256Hex(dump.data) ELSE EmptyKey,
         err     |-> dump.err,
         r       |-> c.orig]

\* RequestToBuff: the buffer, and r as the call leaves it.
RequestToBuff(r, filters) ==
    LET c       == CloneRequestWithBody(r)
        request == ApplyFilters(c.clone, filters)
        dump    == DumpRequestOut(request, ~c.orig.Body.isNil)
    IN  [buff |-> dump.data, r |-> c.orig]

\* ------------------------------------------------------------------ fixtures
ExampleURL(path) == <<"https", "example.com", path>>

RelativeURL(path) == <<"", "", path>>

Base64Text(bytes) == [i \in DOMAIN bytes |-> Base64Symbol(bytes[i])]

EntryGetAuth ==
    [Request  |-> [Method |-> "GET", Url |-> ExampleURL("/a"),
                   Headers |-> <<[Name |-> "Authorization", Value |-> "tok"]>>,
                   PostData |-> [Text |-> <<>>]],
     Response |-> [Status |-> 200,
                   Headers |-> <<[Name |-> "Content-Type", Value |-> "json"]>>,
                   Content |-> [Encoding |-> "base64", Text |-> Base64Text(<<1>>)]]]

EntryGet ==
    [Request  |-> [Method |-> "GET", Url |-> ExampleURL("/a"),
                   Headers |-> <<>>,
                   PostData |-> [Text |-> <<>>]],
     Response |-> [Status |-> 404,
                   Headers |-> <<>>,
                   Content |-> [Encoding |-> "base64", Text |-> Base64Text(<<2>>)]]]

EntryPost ==
    [Request  |-> [Method |-> "POST", Url |-> ExampleURL("/b"),
                   Headers |-> <<[Name |-> "X-Test-Header", Value |-> "v"]>>,
                   PostData |-> [Text |-> <<1, 2>>]],
     Response |-> [Status |-> 201,
                   Headers |-> <<[Name |-> "Content-Type", Value |-> "text"]>>,
                   Content |-> [Encoding |-> "", Text |-> <<1, 2>>]]]

\* The POST recorded a second time, with another response.
EntryPostAgain ==
    [Request  |-> EntryPost.Request,
     Response |-> [Status |-> 500,
                   Headers |-> <<>>,
                   Content |-> [Encoding |-> "base64", Text |-> Base64Text(<<2, 1>>)]]]

\* An entry whose url has no scheme and no host: it cannot be fingerprinted.
EntryRelative ==
    [Request  |-> [Method |-> "GET", Url |-> RelativeURL("/a"),
                   Headers |-> <<>>,
                   PostData |-> [Text |-> <<>>]],
     Response |-> [Status |-> 200,
                   Headers |-> <<>>,
                   Content |-> [Encoding |-> "base64", Text |-> Base64Text(<<1>>)]]]

\* The files on disk: the entries a HAR file decodes to, or no decodable file.
HarFileNames == {"a.har", "b.har", "c.har", "broken.har"}

FileSystem(filename) ==
    CASE filename = "a.har"      -> [ok |-> TRUE,  Entries |-> <<EntryGetAuth>>]
      [] filename = "b.har"      -> [ok |-> TRUE,  Entries |-> <<EntryGet, EntryPost, EntryPostAgain>>]
      [] filename = "c.har"      -> [ok |-> TRUE,  Entries |-> <<EntryRelative, EntryPost>>]
      [] filename = "broken.har" -> [ok |-> FALSE, Entries |-> <<>>]

\* The directories on disk: their files in the lexical order WalkDir visits.
HarDirNames == {"testdata", "mixed"}

Directory(dirname) ==
    CASE dirname = "testdata" -> <<"a.har", "b.har", "notes.txt">>
      [] dirname = "mixed"    -> <<"a.har", "broken.har", "c.har">>

\* filepath.Ext(path) == ".har"
IsHarPath(path) == path \in HarFileNames

\* ------------------------------------------------------------------ transport
MapSet(m, k, v) == [n \in (DOMAIN m) \cup {k} |-> IF n = k THEN v ELSE m[n]]

EmptyMap == [n \in {} |-> <<>>]

\* &ReplayTransport{harFiles: make(map), harResponseCache: make(map)}
EmptyTransport ==
    [harFiles         |-> EmptyMap,
     harResponseCache |-> EmptyMap,
     requestFilters   |-> <<>>,
     debugger         |-> FALSE]

\* LoadHarFile: the decoded file, or the empty HarFile and the error.
LoadHarFile(harFilePath) ==
    LET f == FileSystem(harFilePath)
    IN  IF f.ok
        THEN [har |-> [Log |-> [Entries |-> f.Entries]], err |-> NilErr]
        ELSE [har |-> [Log |-> [Entries |-> <<>>]],
              err |-> NewError("failed to decode HAR file")]

\* An entry already cached under the key is kept.
cacheEntryFirstWins(transport, entry) ==
    LET h == HashRequest(RequestFactory(entry.Request), transport.requestFilters)
    IN  IF ~h.err.isNil
        THEN [rt |-> transport, err |-> h.err]
        ELSE IF h.hashKey \in DOMAIN transport.harResponseCache
        THEN [rt |-> transport, err |-> NilErr]
        ELSE [rt  |-> [transport EXCEPT
                          !.harResponseCache = MapSet(@, h.hashKey, entry)],
              err |-> NilErr]

\* ReplayTransport.cacheEntry
cacheEntry(transport, entry) ==
    LET h == HashRequest(RequestFactory(entry.Request), transport.requestFilters)
    IN  IF ~h.err.isNil
        THEN [rt |-> transport, err |-> h.err]
        ELSE [rt  |-> [transport EXCEPT
                          !.harResponseCache = MapSet(@, h.hashKey, entry)],
              err |-> NilErr]

\* for _, entry := range Entries { err = transport.cacheEntry(entry) }
RECURSIVE CacheEntries(_, _, _)
CacheEntries(transport, entries, e) ==
    IF entries = <<>> THEN [rt |-> transport, err |-> e]
    ELSE LET c == cacheEntry(transport, Head(entries))
         IN  CacheEntries(c.rt, Tail(entries), c.err)

\* WithHarFile(filename)(transport)
WithHarFile(transport, filename) ==
    LET l  == LoadHarFile(filename)
        t1 == [transport EXCEPT !.harFiles = MapSet(@, filename, l.har)]
    IN  IF ~l.err.isNil
        THEN [rt |-> t1, err |-> l.err]
        ELSE CacheEntries(t1, l.har.Log.Entries, NilErr)

\* filepath.WalkDir: the callback on each path in turn, until one returns an error.
RECURSIVE WalkDir(_, _)
WalkDir(transport, paths) ==
    IF paths = <<>> THEN [rt |-> transport, err |-> NilErr]
    ELSE IF ~IsHarPath(Head(paths)) THEN WalkDir(transport, Tail(paths))
    ELSE LET w == WithHarFile(transport, Head(paths))
         IN  IF ~w.err.isNil THEN w ELSE WalkDir(w.rt, Tail(paths))

\* WithHarDir(dirname)(transport)
WithHarDir(transport, dirname) == WalkDir(transport, Directory(dirname))

\* WithRequestFilter(filter)(transport)
WithRequestFilter(transport, filter) ==
    [rt  |-> [transport EXCEPT !.requestFilters = Append(@, filter)],
     err |-> NilErr]

\* WithDelHeaderFilter(key)(transport)
WithDelHeaderFilter(transport, key) ==
    WithRequestFilter(transport, DelHeaderFilter(key))

\* WithRoundTripDebugger()(transport)
WithRoundTripDebugger(transport) ==
    [rt |-> [transport EXCEPT !.debugger = TRUE], err |-> NilErr]

\* WithRequestRecorder(rec)(transport): the transport after it.
WithRequestRecorder(transport) ==
    [rt  |-> [transport EXCEPT
                 !.requestFilters = Append(@, InterceptFilter(transport.requestFilters))],
     err |-> NilErr]

\* The options a caller can pass.
FilterOptions ==
    {[opt |-> "WithDelHeaderFilter", key |-> "Authorization"],
     [opt |-> "WithRequestFilter", filter |-> AddHeaderFilter("X-Trace", "t")]}

SourceOptions ==
    {[opt |-> "WithHarFile", filename |-> f] : f \in HarFileNames}
    \cup {[opt |-> "WithHarDir", dirname |-> d] : d \in HarDirNames}

Options == FilterOptions \cup SourceOptions \cup {[opt |-> "WithRoundTripDebugger"]}

\* opt(rt)
ApplyOption(transport, o) ==
    CASE o.opt = "WithRequestFilter"     -> WithRequestFilter(transport, o.filter)
      [] o.opt = "WithDelHeaderFilter"   -> WithDelHeaderFilter(transport, o.key)
      [] o.opt = "WithHarFile"           -> WithHarFile(transport, o.filename)
      [] o.opt = "WithHarDir"            -> WithHarDir(transport, o.dirname)
      [] o.opt = "WithRoundTripDebugger" -> WithRoundTripDebugger(transport)
      [] o.opt = "WithRequestRecorder"   -> WithRequestRecorder(transport)

\* for _, opt := range opts { if err = opt(rt); err != nil { return } }
RECURSIVE ApplyOptions(_, _)
ApplyOptions(transport, os) ==
    IF os = <<>> THEN [rt |-> transport, err |-> NilErr]
    ELSE LET a == ApplyOption(transport, Head(os))
         IN  IF ~a.err.isNil THEN a ELSE ApplyOptions(a.rt, Tail(os))

\* NewReplayTransport(opts...)
NewReplayTransport(os) == ApplyOptions(EmptyTransport, os)

\* diffmatchpatch DiffMain + DiffPrettyText of the two texts.
Diff(cached, incoming) == [from |-> cached, to |-> incoming, equal |-> cached = incoming]

\* The cache loop left after its first round.
DebuggerSectionsFirstOnly(transport, order, reqKey, incoming) ==
    IF order = <<>> THEN <<>>
    ELSE LET cacheKey == Head(order)
             entry    == transport.harResponseCache[cacheKey]
             cached   == RequestToBuff(RequestFactory(entry.Request),
                                       transport.requestFilters).buff
         IN  <<[cacheKey |-> cacheKey, cached |-> cached,
                reqKey |-> reqKey, incoming |-> incoming,
                diff |-> Diff(cached, incoming)]>>

\* The sections the debugger writes, one per cache key in the order the map
\* iteration yields them.
RECURSIVE DebuggerSections(_, _, _, _)
DebuggerSections(transport, order, reqKey, incoming) ==
    IF order = <<>> THEN <<>>
    ELSE LET cacheKey == Head(order)
             entry    == transport.harResponseCache[cacheKey]
             cached   == RequestToBuff(RequestFactory(entry.Request),
                                       transport.requestFilters).buff
         IN  <<[cacheKey |-> cacheKey, cached |-> cached,
                reqKey |-> reqKey, incoming |-> incoming,
                diff |-> Diff(cached, incoming)]>>
             \o DebuggerSections(transport, Tail(order), reqKey, incoming)

\* transport.debugger(reqKey, request): errors.New(output.String()), and the
\* request as the call leaves it.
Debugger(transport, reqKey, request, order) ==
    LET b == RequestToBuff(request, transport.requestFilters)
    IN  [err |-> [isNil  |-> FALSE, msg |-> <<>>, keys |-> <<>>,
                  report |-> DebuggerSections(transport, order, reqKey, b.buff)],
         r   |-> b.r]

\* A hit takes the entry out of the cache.
RoundTripConsuming(transport, request, order) ==
    LET filtered == ApplyFilters(request, transport.requestFilters)
        h        == HashRequest(filtered, transport.requestFilters)
        hit      == h.err.isNil /\ h.hashKey \in DOMAIN transport.harResponseCache
    IN  [response |-> IF hit
                      THEN ResponseFactory(transport.harResponseCache[h.hashKey].Response)
                      ELSE NilResponse,
         err      |-> IF hit THEN NilErr ELSE NewError("no cached response"),
         hashKey  |-> h.hashKey,
         request  |-> h.r,
         rt       |-> IF hit
                      THEN [transport EXCEPT !.harResponseCache =
                               [k \in (DOMAIN @) \ {h.hashKey} |-> @[k]]]
                      ELSE transport]

\* ReplayTransport.RoundTrip: the response, the error, the fingerprint it
\* computed, the request and the transport as the call leaves them.
RoundTrip(transport, request, order) ==
    LET filtered == ApplyFilters(request, transport.requestFilters)
        h        == HashRequest(filtered, transport.requestFilters)
    IN  IF ~h.err.isNil
        THEN [response |-> NilResponse,
              err      |-> Wrap(h.err, "failed to hash request"),
              hashKey  |-> h.hashKey,
              request  |-> h.r,
              rt       |-> transport]
        ELSE IF h.hashKey \notin DOMAIN transport.harResponseCache
        THEN LET d  == IF transport.debugger
                       THEN Debugger(transport, h.hashKey, h.r, order)
                       ELSE [err |-> NilErr, r |-> h.r]
                 e1 == IF ~d.err.isNil THEN d.err ELSE h.err
             IN  [response |-> NilResponse,
                  err      |-> IF ~e1.isNil
                               THEN Wrap(e1, "no cached response for this request")
                               ELSE Wrapf(e1, "no cached response for this request, try attaching a round trip debugger", h.hashKey),
                  hashKey  |-> h.hashKey,
                  request  |-> d.r,
                  rt       |-> transport]
        ELSE [response |-> ResponseFactory(transport.harResponseCache[h.hashKey].Response),
              err      |-> NilErr,
              hashKey  |-> h.hashKey,
              request  |-> h.r,
              rt       |-> transport]

\* ------------------------------------------------------------------ inputs
OptionLists == UNION {[1..n -> Options] : n \in 0..MaxOpts}

\* The requests a client sends: each recorded request again, the recorded GET
\* built without a body, and a request nobody recorded.
LiveRequests ==
    {RequestFactory(e.Request) : e \in {EntryGetAuth, EntryGet, EntryPost, EntryRelative}}
    \cup {[Method |-> "GET", URL |-> ParseURL(ExampleURL("/a")),
           Header |-> EmptyHeader, Body |-> NilBody],
          [Method |-> "GET", URL |-> ParseURL(ExampleURL("/zzz")),
           Header |-> EmptyHeader, Body |-> Stream(<<>>)]}

\* The orders in which ranging over the cache map can yield its keys.
MapOrders(transport) ==
    IF transport.debugger
    THEN LET keys == DOMAIN transport.harResponseCache
         IN  {o \in [1..Cardinality(keys) -> keys] :
                 \A i, j \in DOMAIN o : i # j => o[i] # o[j]}
    ELSE {<<>>}

NoCall == [made |-> FALSE]

NoSingle == [made |-> FALSE]

NoMiddleware == [made |-> FALSE]

NoTemplate == [at |-> "none"]

\* NewRequestRecorder()
NewRequestRecorder == [requests |-> <<>>, filters |-> <<>>]

NoRecorder == [rec |-> NewRequestRecorder, calls |-> 0]

\* The requests HashRequest and RequestToBuff are called on directly.
HashInputs ==
    [Method : {"GET", "POST"},
     URL    : {ParseURL(ExampleURL("/a")), ParseURL(RelativeURL("/a"))},
     Header : {EmptyHeader,
               HeaderAdd(EmptyHeader, "X-Test-Header", "test header value"),
               HeaderAdd(HeaderAdd(EmptyHeader, "X-Test-Header", "test header value"),
                         "Authorization", "tok")},
     Body   : {NilBody, Stream(<<>>), Stream(<<1, 2>>), FailingStream(<<1>>)}]

FilterSet ==
    {DelHeaderFilter("X-Test-Header"), DelHeaderFilter("Authorization"),
     AddHeaderFilter("X-Trace", "t"), SetPathFilter("/c"), SetBodyFilter(<<2>>)}

FilterLists == UNION {[1..n -> FilterSet] : n \in 0..MaxFilters}

IdleRequest ==
    [Method |-> "GET", URL |-> ParseURL(ExampleURL("/a")),
     Header |-> EmptyHeader, Body |-> NilBody]

\* ------------------------------------------------------------------ transport spec
Init ==
    /\ opts \in OptionLists
    /\ pc = "new"
    /\ rt = EmptyTransport
    /\ err = NilErr
    /\ call = NoCall
    /\ kept = NoCall
    /\ req0 = IdleRequest
    /\ reqObj = IdleRequest
    /\ filterArgs = <<>>
    /\ results = <<>>
    /\ procs = <<>>
    /\ single = NoSingle
    /\ mw = NoMiddleware
    /\ har = NoTemplate
    /\ recorder = NoRecorder

\* rt, err := NewReplayTransport(opts...)
NewReplayTransportCall ==
    /\ pc = "new"
    /\ \E n \in {NewReplayTransport(opts)} :
           /\ rt' = n.rt
           /\ err' = n.err
    /\ pc' = "ready"
    /\ UNCHANGED <<opts, call, kept, hashVars, concVars, singleVars, middlewareVars, harVars, recorderVars>>

\* response, err := rt.RoundTrip(request), on a transport built without error.
\* kept remembers one earlier call, chosen freely.
RoundTripCall ==
    /\ pc = "ready"
    /\ err.isNil
    /\ \E request \in LiveRequests, order \in MapOrders(rt) :
          \E out \in {RoundTrip(rt, request, order)} :
              /\ rt' = out.rt
              /\ call' = [made     |-> TRUE,
                          later    |-> kept.made,
                          given    |-> request,
                          left     |-> out.request,
                          response |-> out.response,
                          err      |-> out.err,
                          hashKey  |-> out.hashKey]
              /\ kept' \in (IF kept.made THEN {kept} ELSE {kept, call'})
    /\ UNCHANGED <<opts, pc, err, hashVars, concVars, singleVars, middlewareVars, harVars, recorderVars>>

Next == NewReplayTransportCall \/ RoundTripCall

Spec == Init /\ [][Next]_vars

\* ------------------------------------------------------------------ fingerprinting spec
InitHash ==
    /\ opts = <<>>
    /\ pc = "idle"
    /\ rt = EmptyTransport
    /\ err = NilErr
    /\ call = NoCall
    /\ kept = NoCall
    /\ req0 \in HashInputs
    /\ reqObj = req0
    /\ filterArgs \in FilterLists
    /\ results = <<>>
    /\ procs = <<>>
    /\ single = NoSingle
    /\ mw = NoMiddleware
    /\ har = NoTemplate
    /\ recorder = NoRecorder

\* hashKey, err := HashRequest(r, filters...)
HashRequestCall ==
    /\ Len(results) < MaxCalls
    /\ \E out \in {HashRequest(reqObj, filterArgs)} :
           /\ reqObj' = out.r
           /\ results' = Append(results, [op |-> "HashRequest", hashKey |-> out.hashKey,
                                          err |-> out.err, buff |-> <<>>])
    /\ UNCHANGED <<req0, filterArgs, transportVars, concVars, singleVars, middlewareVars, harVars, recorderVars>>

\* buff := RequestToBuff(r, filters...)
RequestToBuffCall ==
    /\ Len(results) < MaxCalls
    /\ \E out \in {RequestToBuff(reqObj, filterArgs)} :
           /\ reqObj' = out.r
           /\ results' = Append(results, [op |-> "RequestToBuff", hashKey |-> EmptyKey,
                                          err |-> NilErr, buff |-> out.buff])
    /\ UNCHANGED <<req0, filterArgs, transportVars, concVars, singleVars, middlewareVars, harVars, recorderVars>>

NextHash == HashRequestCall \/ RequestToBuffCall

SpecHash == InitHash /\ [][NextHash]_vars

\* ------------------------------------------------------------------ concurrent RoundTrips
\* One RoundTrip call in progress: the request object it was given, the
\* locals hashKey, entry (none or one), response and err, and the statement
\* it is at.
NewProc(request) ==
    [at |-> "filter", given |-> request, request |-> request, hashKey |-> EmptyKey,
     entry |-> <<>>, response |-> NilResponse, err |-> NilErr]

\* for _, filter := range r.requestFilters { filter(request) }
FilterStep(transport, p) ==
    [p EXCEPT !.request = ApplyFilters(p.request, transport.requestFilters),
              !.at = "hash"]

\* hashKey, err := HashRequest(request, r.requestFilters...), and the return
\* on its error.
HashStep(transport, p) ==
    LET h == HashRequest(p.request, transport.requestFilters)
    IN  [p EXCEPT !.request = h.r,
                  !.hashKey = h.hashKey,
                  !.err = Wrap(h.err, "failed to hash request"),
                  !.at = IF h.err.isNil THEN "lookup" ELSE "done"]

\* A hit takes the entry out of the shared cache.
LookupStepConsuming(transport, p) ==
    LET ok == p.hashKey \in DOMAIN transport.harResponseCache
    IN  [p  |-> [p EXCEPT !.entry = IF ok THEN <<transport.harResponseCache[p.hashKey]>>
                                    ELSE <<>>,
                          !.at = IF ok THEN "hit" ELSE "miss"],
         rt |-> IF ok
                THEN [transport EXCEPT !.harResponseCache =
                         [k \in (DOMAIN @) \ {p.hashKey} |-> @[k]]]
                ELSE transport]

\* entry, ok := r.harResponseCache[hashKey]: the locals and the transport
\* after the read.
LookupStep(transport, p) ==
    LET ok == p.hashKey \in DOMAIN transport.harResponseCache
    IN  [p  |-> [p EXCEPT !.entry = IF ok THEN <<transport.harResponseCache[p.hashKey]>>
                                    ELSE <<>>,
                          !.at = IF ok THEN "hit" ELSE "miss"],
         rt |-> transport]

\* The !ok branch: the debugger when there is one, the wrapped error, return.
MissStep(transport, p, order) ==
    LET d  == IF transport.debugger
              THEN Debugger(transport, p.hashKey, p.request, order)
              ELSE [err |-> NilErr, r |-> p.request]
    IN  [p EXCEPT !.request = d.r,
                  !.err = IF ~d.err.isNil
                          THEN Wrap(d.err, "no cached response for this request")
                          ELSE Wrapf(d.err, "no cached response for this request, try attaching a round trip debugger", p.hashKey),
                  !.at = "done"]

\* response = entry.Response.Factory(); return
HitStep(p) ==
    [p EXCEPT !.response = ResponseFactory(p.entry[1].Response), !.at = "done"]

\* Transports built before the calls start.
PrebuiltOptionLists ==
    {<<[opt |-> "WithHarDir", dirname |-> "testdata"]>>,
     <<[opt |-> "WithDelHeaderFilter", key |-> "Authorization"],
       [opt |-> "WithHarDir", dirname |-> "testdata"]>>,
     <<[opt |-> "WithRoundTripDebugger"],
       [opt |-> "WithHarFile", filename |-> "b.har"]>>,
     <<[opt |-> "WithRequestFilter", filter |-> AddHeaderFilter("X-Trace", "t")],
       [opt |-> "WithHarFile", filename |-> "a.har"]>>}

\* MaxProcs goroutines, each about to call rt.RoundTrip with a request of its own.
InitConc ==
    /\ opts \in PrebuiltOptionLists
    /\ pc = "ready"
    /\ rt = NewReplayTransport(opts).rt
    /\ err = NewReplayTransport(opts).err
    /\ call = NoCall
    /\ kept = NoCall
    /\ req0 = IdleRequest
    /\ reqObj = IdleRequest
    /\ filterArgs = <<>>
    /\ results = <<>>
    /\ procs \in [1..MaxProcs -> {NewProc(r) : r \in LiveRequests}]
    /\ single = NoSingle
    /\ mw = NoMiddleware
    /\ har = NoTemplate
    /\ recorder = NoRecorder

ProcFilter(i) ==
    /\ procs[i].at = "filter"
    /\ procs' = [procs EXCEPT ![i] = FilterStep(rt, @)]
    /\ UNCHANGED <<transportVars, hashVars, singleVars, middlewareVars, harVars, recorderVars>>

ProcHash(i) ==
    /\ procs[i].at = "hash"
    /\ procs' = [procs EXCEPT ![i] = HashStep(rt, @)]
    /\ UNCHANGED <<transportVars, hashVars, singleVars, middlewareVars, harVars, recorderVars>>

ProcLookup(i) ==
    /\ procs[i].at = "lookup"
    /\ \E out \in {LookupStep(rt, procs[i])} :
           /\ procs' = [procs EXCEPT ![i] = out.p]
           /\ rt' = out.rt
    /\ UNCHANGED <<opts, pc, err, call, kept, hashVars, singleVars, middlewareVars, harVars, recorderVars>>

ProcMiss(i) ==
    /\ procs[i].at = "miss"
    /\ \E order \in MapOrders(rt) :
          procs' = [procs EXCEPT ![i] = MissStep(rt, @, order)]
    /\ UNCHANGED <<transportVars, hashVars, singleVars, middlewareVars, harVars, recorderVars>>

ProcHit(i) ==
    /\ procs[i].at = "hit"
    /\ procs' = [procs EXCEPT ![i] = HitStep(@)]
    /\ UNCHANGED <<transportVars, hashVars, singleVars, middlewareVars, harVars, recorderVars>>

NextConc ==
    \E i \in DOMAIN procs :
        ProcFilter(i) \/ ProcHash(i) \/ ProcLookup(i) \/ ProcMiss(i) \/ ProcHit(i)

SpecConc == InitConc /\ [][NextConc]_vars

\* ------------------------------------------------------------------ SingleResponseTransport
\* A nil *http.Request.
NilRequest == [isNil |-> TRUE]

\* A call that dereferences its request: a nil request fails.
SingleResponseRoundTripOfRequest(transport, request) ==
    IF request = NilRequest
    THEN [response |-> NilResponse, err |-> NewError("nil request")]
    ELSE [response |-> ResponseFactory(transport.entry.Response), err |-> NilErr]

\* SingleResponseTransport.RoundTrip
SingleResponseRoundTrip(transport, request) ==
    [response |-> ResponseFactory(transport.entry.Response), err |-> NilErr]

SingleEntries == {EntryGetAuth, EntryGet, EntryPost, EntryPostAgain, EntryRelative}

\* NewSingleResponseClient(entry)
InitSingle ==
    /\ opts = <<>>
    /\ pc = "single"
    /\ rt = EmptyTransport
    /\ err = NilErr
    /\ call = NoCall
    /\ kept = NoCall
    /\ req0 = IdleRequest
    /\ reqObj = IdleRequest
    /\ filterArgs = <<>>
    /\ results = <<>>
    /\ procs = <<>>
    /\ single \in {[made |-> FALSE, transport |-> [entry |-> e], calls |-> 0] :
                      e \in SingleEntries}
    /\ mw = NoMiddleware
    /\ har = NoTemplate
    /\ recorder = NoRecorder

\* response, err := transport.RoundTrip(request)
SingleRoundTripCall ==
    /\ single.calls < MaxCalls
    /\ \E request \in LiveRequests \cup {NilRequest} :
          \E out \in {SingleResponseRoundTrip(single.transport, request)} :
              single' = [made      |-> TRUE,
                         transport |-> single.transport,
                         calls     |-> single.calls + 1,
                         given     |-> request,
                         response  |-> out.response,
                         err       |-> out.err,
                         read      |-> <<>>,
                         closed    |-> FALSE]
    /\ UNCHANGED <<transportVars, hashVars, concVars, middlewareVars, harVars, recorderVars>>

\* The client reads the response's body to its end and closes it.
ReadResponseBody ==
    /\ single.made
    /\ ~single.closed
    /\ ~single.response.isNil
    /\ single' = [single EXCEPT !.read = ReadFrom(single.response.Body),
                                !.response.Body = Stream(<<>>),
                                !.closed = TRUE]
    /\ UNCHANGED <<transportVars, hashVars, concVars, middlewareVars, harVars, recorderVars>>

NextSingle == SingleRoundTripCall \/ ReadResponseBody

SpecSingle == InitSingle /\ [][NextSingle]_vars

\* ------------------------------------------------------------------ recorder middleware
\* params.URLMapper: nil, or a function that gives the URL of the upstream
\* the request stands for.
NoMapper == [isNil |-> TRUE]

UpstreamMapper == [isNil |-> FALSE, Scheme |-> "https", Host |-> "example.com"]

URLMapper(mapper, r) ==
    [Scheme |-> mapper.Scheme, Host |-> mapper.Host, Path |-> r.URL.Path]

\* os.WriteFile(filename, data, 0744) on the directory: the file created or
\* replaced, or the directory as it was and an error.
WriteFile(files, filename, data, disk) ==
    IF disk = "ok"
    THEN [files |-> MapSet(files, filename, data), err |-> NilErr]
    ELSE [files |-> files, err |-> NewError("open: permission denied")]

\* The handler that calls next before it records.
RecorderHandlerNextFirst(params, files, request, disk) ==
    IF ~params.Enabled
    THEN [files |-> files, logged |-> <<>>, next |-> [request |-> request, files |-> files]]
    ELSE LET c0      == CloneRequestWithBody(request)
             reqCopy == IF params.URLMapper.isNil THEN c0.clone
                        ELSE [c0.clone EXCEPT !.URL = URLMapper(params.URLMapper, c0.clone)]
             c1      == CloneRequestWithBody(reqCopy)
             h       == HashRequest(c1.clone, params.RequestFilters)
         IN  IF ~h.err.isNil
             THEN [files  |-> files,
                   logged |-> <<"failed to hash request">>,
                   next   |-> [request |-> c0.orig, files |-> files]]
             ELSE LET filename == <<h.hashKey, ".req">>
                      c2       == CloneRequestWithBody(c1.orig)
                      data     == RequestToBuff(c2.clone, params.RequestFilters)
                      w        == WriteFile(files, filename, data.buff, disk)
                  IN  [files  |-> w.files,
                       logged |-> IF w.err.isNil THEN <<>>
                                  ELSE <<"failed to write request data">>,
                       next   |-> [request |-> c0.orig, files |-> files]]

\* The http.HandlerFunc NewRequestRecorderMiddleware returns, called with
\* request: the record directory and the log after it, and the request and
\* the directory the deferred next.ServeHTTP finds.
RecorderHandler(params, files, request, disk) ==
    IF ~params.Enabled
    THEN [files |-> files, logged |-> <<>>, next |-> [request |-> request, files |-> files]]
    ELSE LET c0      == CloneRequestWithBody(request)
             reqCopy == IF params.URLMapper.isNil THEN c0.clone
                        ELSE [c0.clone EXCEPT !.URL = URLMapper(params.URLMapper, c0.clone)]
             c1      == CloneRequestWithBody(reqCopy)
             h       == HashRequest(c1.clone, params.RequestFilters)
         IN  IF ~h.err.isNil
             THEN [files  |-> files,
                   logged |-> <<"failed to hash request">>,
                   next   |-> [request |-> c0.orig, files |-> files]]
             ELSE LET filename == <<h.hashKey, ".req">>
                      c2       == CloneRequestWithBody(c1.orig)
                      data     == RequestToBuff(c2.clone, params.RequestFilters)
                      w        == WriteFile(files, filename, data.buff, disk)
                  IN  [files  |-> w.files,
                       logged |-> IF w.err.isNil THEN <<>>
                                  ELSE <<"failed to write request data">>,
                       next   |-> [request |-> c0.orig, files |-> w.files]]

MiddlewareParams ==
    [Enabled        : BOOLEAN,
     URLMapper      : {NoMapper, UpstreamMapper},
     RequestFilters : {<<>>, <<DelHeaderFilter("X-Test-Header")>>, <<SetBodyFilter(<<2>>)>>}]

\* The requests the server hands to the handler: with the absolute target of
\* the test, or with the path only as a server parses a request line.
ServerRequests ==
    [Method : {"GET", "POST"},
     URL    : {ParseURL(ExampleURL("/v1/resource")), ParseURL(RelativeURL("/v1/resource"))},
     Header : {EmptyHeader, HeaderAdd(EmptyHeader, "X-Test-Header", "value")},
     Body   : {NilBody, Stream(<<1, 2>>)}]

DiskOutcomes == {"ok", "failed"}

\* NewRequestRecorderMiddleware(params) on an empty record directory.
InitMiddleware ==
    /\ opts = <<>>
    /\ pc = "middleware"
    /\ rt = EmptyTransport
    /\ err = NilErr
    /\ call = NoCall
    /\ kept = NoCall
    /\ req0 = IdleRequest
    /\ reqObj = IdleRequest
    /\ filterArgs = <<>>
    /\ results = <<>>
    /\ procs = <<>>
    /\ single = NoSingle
    /\ mw \in {[made |-> FALSE, params |-> p, files |-> EmptyMap, calls |-> 0] :
                  p \in MiddlewareParams}
    /\ har = NoTemplate
    /\ recorder = NoRecorder

\* handler.ServeHTTP(writer, request)
ServeHTTP ==
    /\ mw.calls < MaxCalls
    /\ \E request \in ServerRequests, disk \in DiskOutcomes :
          \E out \in {RecorderHandler(mw.params, mw.files, request, disk)} :
              mw' = [made   |-> TRUE,
                     params |-> mw.params,
                     files  |-> out.files,
                     calls  |-> mw.calls + 1,
                     given  |-> request,
                     disk   |-> disk,
                     logged |-> out.logged,
                     next   |-> out.next]
    /\ UNCHANGED <<transportVars, hashVars, concVars, singleVars, harVars, recorderVars>>

NextMiddleware == ServeHTTP

SpecMiddleware == InitMiddleware /\ [][NextMiddleware]_vars

\* ------------------------------------------------------------------ HAR templates
\* The headers a recording lists: one name with two values, two more names.
HarHeaders ==
    {[Name |-> "Accept", Value |-> "text/html"], [Name |-> "Accept", Value |-> "text/plain"],
     [Name |-> "X-One", Value |-> "v"], [Name |-> "X-Two", Value |-> "v"]}

HarHeaderLists == UNION {[1..n -> HarHeaders] : n \in 0..MaxHeaders}

\* The request of a recording with the headers hs.
HarRequest(method, hs) ==
    [Method |-> method, Url |-> ExampleURL("/a"), Headers |-> hs,
     PostData |-> [Text |-> <<>>]]

HarFilterLists ==
    {<<>>, <<ReorderFilter(<<"X-Two", "X-One", "Accept">>)>>,
     <<ReorderFilter(<<"Accept", "X-One", "X-Two">>)>>}

\* A recording as LoadHarFile decoded it.
InitHar ==
    /\ opts = <<>>
    /\ pc = "har"
    /\ rt = EmptyTransport
    /\ err = NilErr
    /\ call = NoCall
    /\ kept = NoCall
    /\ req0 = IdleRequest
    /\ reqObj = IdleRequest
    /\ filterArgs = <<>>
    /\ results = <<>>
    /\ procs = <<>>
    /\ single = NoSingle
    /\ mw = NoMiddleware
    /\ har \in {[at |-> "template", tmpl |-> HarRequest(m, hs)] :
                   m \in {"GET", "POST"}, hs \in HarHeaderLists}
    /\ recorder = NoRecorder

\* request := entry.Request.Factory()
FactoryCall ==
    /\ har.at = "template"
    /\ har' = [at |-> "built", tmpl |-> har.tmpl, request |-> RequestFactory(har.tmpl)]
    /\ UNCHANGED <<transportVars, hashVars, concVars, singleVars, middlewareVars, recorderVars>>

\* hashKey, err := HashRequest(request, filters...)
HashTemplateCall ==
    /\ har.at = "built"
    /\ \E filters \in HarFilterLists :
          \E h \in {HashRequest(har.request, filters)} :
              har' = [at |-> "hashed", tmpl |-> har.tmpl, request |-> h.r,
                      filters |-> filters, hashKey |-> h.hashKey, err |-> h.err]
    /\ UNCHANGED <<transportVars, hashVars, concVars, singleVars, middlewareVars, recorderVars>>

NextHar == FactoryCall \/ HashTemplateCall

SpecHar == InitHar /\ [][NextHar]_vars

\* ------------------------------------------------------------------ request recorder
\* RequestRecorder.intercept(r): the recorder after it.
Intercept(rec, r) ==
    LET h == HashRequest(r, rec.filters)
        b == RequestToBuff(h.r, rec.filters)
    IN  [rec EXCEPT !.requests = Append(@, [Key |-> h.hashKey, Buff |-> b.buff])]

\* for _, filter := range filters { filter(request) }: the recorder after the
\* loop, intercept called wherever it stands in filters.
RECURSIVE FilterLoopRecords(_, _, _)
FilterLoopRecords(rec, request, filters) ==
    IF filters = <<>> THEN rec
    ELSE FilterLoopRecords(IF Head(filters).op = "intercept"
                           THEN Intercept(rec, request) ELSE rec,
                           ApplyFilter(Head(filters), request),
                           Tail(filters))

\* The recorder after HashRequest(r, filters...) or RequestToBuff(r, filters...):
\* both run the filters on the clone.
HashRequestRecords(rec, r, filters) ==
    FilterLoopRecords(rec, CloneRequestWithBody(r).clone, filters)

\* The recorder after the entry loop of WithHarFile.
RECURSIVE CacheEntriesRecords(_, _, _)
CacheEntriesRecords(rec, transport, entries) ==
    IF entries = <<>> THEN rec
    ELSE CacheEntriesRecords(
             HashRequestRecords(rec, RequestFactory(Head(entries).Request),
                                transport.requestFilters),
             cacheEntry(transport, Head(entries)).rt,
             Tail(entries))

\* The recorder after WithHarFile(filename)(transport).
WithHarFileRecords(rec, transport, filename) ==
    LET l == LoadHarFile(filename)
    IN  IF ~l.err.isNil THEN rec
        ELSE CacheEntriesRecords(rec, transport, l.har.Log.Entries)

\* The recorder after WithHarDir's walk.
RECURSIVE WalkDirRecords(_, _, _)
WalkDirRecords(rec, transport, paths) ==
    IF paths = <<>> THEN rec
    ELSE IF ~IsHarPath(Head(paths)) THEN WalkDirRecords(rec, transport, Tail(paths))
    ELSE LET w  == WithHarFile(transport, Head(paths))
             r1 == WithHarFileRecords(rec, transport, Head(paths))
         IN  IF ~w.err.isNil THEN r1 ELSE WalkDirRecords(r1, w.rt, Tail(paths))

\* The recorder after opt(rt).
ApplyOptionRecords(rec, transport, o) ==
    CASE o.opt = "WithRequestRecorder" ->
            [rec EXCEPT !.filters = @ \o transport.requestFilters]
      [] o.opt = "WithHarFile" -> WithHarFileRecords(rec, transport, o.filename)
      [] o.opt = "WithHarDir"  -> WalkDirRecords(rec, transport, Directory(o.dirname))
      [] OTHER                 -> rec

\* The recorder after NewReplayTransport's option loop.
RECURSIVE ApplyOptionsRecords(_, _, _)
ApplyOptionsRecords(rec, transport, os) ==
    IF os = <<>> THEN rec
    ELSE LET a  == ApplyOption(transport, Head(os))
             r1 == ApplyOptionRecords(rec, transport, Head(os))
         IN  IF ~a.err.isNil THEN r1 ELSE ApplyOptionsRecords(r1, a.rt, Tail(os))

\* The recorder after the debugger: RequestToBuff of the incoming request,
\* then of every cached request.
RECURSIVE DebuggerLoopRecords(_, _, _)
DebuggerLoopRecords(rec, transport, order) ==
    IF order = <<>> THEN rec
    ELSE DebuggerLoopRecords(
             HashRequestRecords(rec,
                 RequestFactory(transport.harResponseCache[Head(order)].Request),
                 transport.requestFilters),
             transport, Tail(order))

\* The recorder after ReplayTransport.RoundTrip(request).
RoundTripRecords(rec, transport, request, order) ==
    LET r1       == FilterLoopRecords(rec, request, transport.requestFilters)
        filtered == ApplyFilters(request, transport.requestFilters)
        r2       == HashRequestRecords(r1, filtered, transport.requestFilters)
        h        == HashRequest(filtered, transport.requestFilters)
    IN  IF h.err.isNil
           /\ h.hashKey \notin DOMAIN transport.harResponseCache
           /\ transport.debugger
        THEN DebuggerLoopRecords(
                 HashRequestRecords(r2, h.r, transport.requestFilters),
                 transport, order)
        ELSE r2

RecorderOption == [opt |-> "WithRequestRecorder"]

\* Option lists that register the recorder once.
RecorderOptionLists ==
    {<<RecorderOption>>,
     <<[opt |-> "WithHarFile", filename |-> "b.har"], RecorderOption>>,
     <<[opt |-> "WithDelHeaderFilter", key |-> "Authorization"],
       [opt |-> "WithHarDir", dirname |-> "testdata"], RecorderOption>>,
     <<[opt |-> "WithRoundTripDebugger"],
       [opt |-> "WithHarFile", filename |-> "b.har"], RecorderOption>>,
     <<RecorderOption, [opt |-> "WithHarFile", filename |-> "a.har"]>>,
     <<[opt |-> "WithRequestFilter", filter |-> AddHeaderFilter("X-Trace", "t")],
       RecorderOption, [opt |-> "WithHarDir", dirname |-> "mixed"]>>}

\* rec := NewRequestRecorder(), before NewReplayTransport(..., WithRequestRecorder(rec), ...)
InitRecorder ==
    /\ opts \in RecorderOptionLists
    /\ pc = "new"
    /\ rt = EmptyTransport
    /\ err = NilErr
    /\ call = NoCall
    /\ kept = NoCall
    /\ req0 = IdleRequest
    /\ reqObj = IdleRequest
    /\ filterArgs = <<>>
    /\ results = <<>>
    /\ procs = <<>>
    /\ single = NoSingle
    /\ mw = NoMiddleware
    /\ har = NoTemplate
    /\ recorder = NoRecorder

\* rt, err := NewReplayTransport(opts...)
BuildWithRecorder ==
    /\ pc = "new"
    /\ \E n \in {NewReplayTransport(opts)} :
           /\ rt' = n.rt
           /\ err' = n.err
    /\ recorder' = [rec   |-> ApplyOptionsRecords(recorder.rec, EmptyTransport, opts),
                    calls |-> 0]
    /\ pc' = "ready"
    /\ UNCHANGED <<opts, call, kept, hashVars, concVars, singleVars, middlewareVars,
                   harVars>>

\* response, err := rt.RoundTrip(request)
RoundTripWithRecorder ==
    /\ pc = "ready"
    /\ err.isNil
    /\ recorder.calls < MaxCalls
    /\ \E request \in LiveRequests, order \in MapOrders(rt) :
          \E out \in {RoundTrip(rt, request, order)} :
              /\ rt' = out.rt
              /\ call' = [made     |-> TRUE,
                          later    |-> FALSE,
                          given    |-> request,
                          left     |-> out.request,
                          response |-> out.response,
                          err      |-> out.err,
                          hashKey  |-> out.hashKey]
              /\ recorder' = [rec   |-> RoundTripRecords(recorder.rec, rt, request, order),
                              calls |-> recorder.calls + 1]
    /\ UNCHANGED <<opts, pc, err, kept, hashVars, concVars, singleVars, middlewareVars,
                   harVars>>

NextRecorder == BuildWithRecorder \/ RoundTripWithRecorder

SpecRecorder == InitRecorder /\ [][NextRecorder]_vars

\* ------------------------------------------------------------------ concurrent RoundTrips with a recorder
\* A RoundTrip call on a transport with a recorder: the locals of NewProc, the
\* records its filter loop has still to append (pending), the slice it read
\* for the append under way (seen), the records it has appended and the
\* statement to go on with after the appends.
NewRecordingProc(request) ==
    [at |-> "filter", given |-> request, request |-> request, hashKey |-> EmptyKey,
     entry |-> <<>>, response |-> NilResponse, err |-> NilErr,
     pending |-> <<>>, seen |-> <<>>, appended |-> <<>>, resume |-> "filter"]

\* The records a run of filter loops appends, whatever the recorder holds.
RecordsOf(rec) == rec.requests

FreshList(rec) == [rec EXCEPT !.requests = <<>>]

\* The call p with the intercept calls of the loop it just ran still to make.
WithPending(p, records) ==
    IF records = <<>> THEN p
    ELSE [p EXCEPT !.pending = records, !.resume = p.at, !.at = "append"]

\* rdb.requests = append(rdb.requests, db), first half: the slice is read.
AppendRead(rec, p) == [p EXCEPT !.seen = rec.requests, !.at = "store"]

\* rdb.requests = append(rdb.requests, db), second half: the slice read, with
\* db after it, is stored.
AppendStore(rec, p) ==
    [p   |-> [p EXCEPT !.appended = Append(@, Head(p.pending)),
                       !.pending = Tail(@),
                       !.seen = <<>>,
                       !.at = IF Tail(p.pending) = <<>> THEN p.resume ELSE "append"],
     rec |-> [rec EXCEPT !.requests = Append(p.seen, Head(p.pending))]]

\* The records the debugger's RequestToBuff calls make intercept append.
DebuggerRecords(rec, transport, request, order) ==
    IF transport.debugger
    THEN RecordsOf(DebuggerLoopRecords(
             HashRequestRecords(FreshList(rec), request, transport.requestFilters),
             transport, order))
    ELSE <<>>

\* A transport built with the recorder, and MaxProcs goroutines about to call
\* rt.RoundTrip with a request of their own.
InitConcRecorder ==
    /\ opts \in {os \in RecorderOptionLists : NewReplayTransport(os).err.isNil}
    /\ pc = "ready"
    /\ rt = NewReplayTransport(opts).rt
    /\ err = NilErr
    /\ call = NoCall
    /\ kept = NoCall
    /\ req0 = IdleRequest
    /\ reqObj = IdleRequest
    /\ filterArgs = <<>>
    /\ results = <<>>
    /\ procs \in [1..MaxProcs -> {NewRecordingProc(r) : r \in LiveRequests}]
    /\ single = NoSingle
    /\ mw = NoMiddleware
    /\ har = NoTemplate
    /\ recorder = [rec   |-> ApplyOptionsRecords(NewRequestRecorder, EmptyTransport, opts),
                   calls |-> 0]

\* The filter loop of RoundTrip on the caller's request.
RecordingFilter(i) ==
    /\ procs[i].at = "filter"
    /\ \E records \in {RecordsOf(FilterLoopRecords(FreshList(recorder.rec), procs[i].request,
                                                   rt.requestFilters))} :
          procs' = [procs EXCEPT ![i] = WithPending(FilterStep(rt, @), records)]
    /\ UNCHANGED <<transportVars, hashVars, singleVars, middlewareVars, harVars, recorderVars>>

\* HashRequest, whose filter loop runs on the clone.
RecordingHash(i) ==
    /\ procs[i].at = "hash"
    /\ \E records \in {RecordsOf(HashRequestRecords(FreshList(recorder.rec), procs[i].request,
                                                    rt.requestFilters))} :
          procs' = [procs EXCEPT ![i] = WithPending(HashStep(rt, @), records)]
    /\ UNCHANGED <<transportVars, hashVars, singleVars, middlewareVars, harVars, recorderVars>>

RecordingLookup(i) ==
    /\ procs[i].at = "lookup"
    /\ procs' = [procs EXCEPT ![i] = LookupStep(rt, @).p]
    /\ UNCHANGED <<transportVars, hashVars, singleVars, middlewareVars, harVars, recorderVars>>

\* The miss branch; the debugger's RequestToBuff calls run the filters again.
RecordingMiss(i) ==
    /\ procs[i].at = "miss"
    /\ \E order \in MapOrders(rt) :
          \E records \in {DebuggerRecords(recorder.rec, rt, procs[i].request, order)} :
              procs' = [procs EXCEPT ![i] = WithPending(MissStep(rt, @, order), records)]
    /\ UNCHANGED <<transportVars, hashVars, singleVars, middlewareVars, harVars, recorderVars>>

RecordingHit(i) ==
    /\ procs[i].at = "hit"
    /\ procs' = [procs EXCEPT ![i] = HitStep(@)]
    /\ UNCHANGED <<transportVars, hashVars, singleVars, middlewareVars, harVars, recorderVars>>

\* intercept reads rdb.requests for its append.
InterceptRead(i) ==
    /\ procs[i].at = "append"
    /\ procs' = [procs EXCEPT ![i] = AppendRead(recorder.rec, @)]
    /\ UNCHANGED <<transportVars, hashVars, singleVars, middlewareVars, harVars, recorderVars>>

\* intercept stores the appended slice in rdb.requests.
InterceptStore(i) ==
    /\ procs[i].at = "store"
    /\ \E out \in {AppendStore(recorder.rec, procs[i])} :
          /\ procs' = [procs EXCEPT ![i] = out.p]
          /\ recorder' = [recorder EXCEPT !.rec = out.rec]
    /\ UNCHANGED <<transportVars, hashVars, singleVars, middlewareVars, harVars>>

NextConcRecorder ==
    \E i \in DOMAIN procs :
        \/ RecordingFilter(i) \/ RecordingHash(i) \/ RecordingLookup(i)
        \/ RecordingMiss(i) \/ RecordingHit(i)
        \/ InterceptRead(i) \/ InterceptStore(i)

SpecConcRecorder == InitConcRecorder /\ [][NextConcRecorder]_vars

\* ------------------------------------------------------------------ claims
\* The last RoundTrip computed a fingerprint and the cache had no entry for it.
Miss == call.made /\ call.hashKey # EmptyKey /\ call.hashKey \notin DOMAIN rt.harResponseCache

\* C1: a RoundTrip that misses on a transport without diagnostic hook returns a
\* nil response and a non-nil error whose text contains the fingerprint.
C1_MissWithoutDebuggerFails ==
    (Miss /\ ~rt.debugger) =>
        /\ call.response.isNil
        /\ ~call.err.isNil
        /\ ErrorContains(call.err, call.hashKey)

\* C2: a RoundTrip that misses on a transport with the diagnostic hook returns
\* an error whose text contains the fingerprint of the live request, whatever
\* the cache holds.
C2_MissWithDebuggerNamesKey ==
    (Miss /\ rt.debugger) => ErrorContains(call.err, call.hashKey)

\* Every filter option comes before every source option.
FiltersBeforeSources(os) ==
    \A i, j \in DOMAIN os :
        (os[i] \in SourceOptions /\ os[j] \in FilterOptions) => j < i

\* The response a recording stands for: its status, its headers, its content
\* decoded from base64.
RecordedResponse(r) ==
    [isNil         |-> FALSE,
     StatusCode    |-> r.Status,
     Header        |-> ToHTTPHeader(r.Headers),
     Body          |-> Stream(DecodeString(r.Content.Text)),
     ContentLength |-> Len(DecodeString(r.Content.Text))]

\* C3: with the filters registered before the sources, a RoundTrip of a request
\* identical to the recorded request of a cache entry (content recorded as
\* base64) is a hit and returns that entry's recorded response, for every
\* filter pipeline.
C3_ReplayOfRecordedRequestHits ==
    (pc = "ready" /\ err.isNil /\ call.made /\ FiltersBeforeSources(opts)) =>
        \A k \in DOMAIN rt.harResponseCache :
            LET entry == rt.harResponseCache[k]
            IN  (call.given = RequestFactory(entry.Request)
                 /\ entry.Response.Content.Encoding = "base64") =>
                    /\ call.err.isNil
                    /\ call.response = RecordedResponse(entry.Response)

\* C4: after NewReplayTransport returned without error, every cache key is the
\* fingerprint of its entry's recorded request under the transport's complete
\* filter list, in whatever order the options were passed.
C4_KeysUseCompleteFilterList ==
    (pc = "ready" /\ err.isNil) =>
        \A k \in DOMAIN rt.harResponseCache :
            k = HashRequest(RequestFactory(rt.harResponseCache[k].Request),
                            rt.requestFilters).hashKey

\* The filters registered by the options before the i-th.
RECURSIVE FiltersOf(_)
FiltersOf(os) ==
    IF os = <<>> THEN <<>>
    ELSE LET o == Head(os)
         IN  (CASE o.opt = "WithRequestFilter"   -> <<o.filter>>
                [] o.opt = "WithDelHeaderFilter" -> <<DelHeaderFilter(o.key)>>
                [] OTHER                         -> <<>>)
             \o FiltersOf(Tail(os))

\* Option i is WithHarFile of a file that decodes and has an entry whose
\* fingerprint cannot be computed.
HarFileWithUnhashableEntry(i) ==
    /\ opts[i].opt = "WithHarFile"
    /\ FileSystem(opts[i].filename).ok
    /\ \E j \in DOMAIN FileSystem(opts[i].filename).Entries :
          ~HashRequest(RequestFactory(FileSystem(opts[i].filename).Entries[j].Request),
                       FiltersOf(SubSeq(opts, 1, i - 1))).err.isNil

\* C5: if fingerprinting any entry of a HAR file fails during the build,
\* NewReplayTransport returns a non-nil error, also when later entries of the
\* file are fingerprinted.
C5_BuildFailsOnUnhashableEntry ==
    (pc = "ready" /\ \E i \in DOMAIN opts : HarFileWithUnhashableEntry(i)) =>
        ~err.isNil

\* Option i names a source that does not load.
RECURSIVE AnyFileBroken(_)
AnyFileBroken(paths) ==
    paths # <<>> /\
        \/ (IsHarPath(Head(paths)) /\ ~FileSystem(Head(paths)).ok)
        \/ AnyFileBroken(Tail(paths))

SourceFails(o) ==
    \/ o.opt = "WithHarFile" /\ ~FileSystem(o.filename).ok
    \/ o.opt = "WithHarDir" /\ AnyFileBroken(Directory(o.dirname))

\* C6: when loading a source fails, NewReplayTransport returns a non-nil error
\* and a transport that holds no cache entry and no HAR file record.
C6_FailedBuildLeavesNothing ==
    (pc = "ready" /\ \E i \in DOMAIN opts : SourceFails(opts[i])) =>
        /\ ~err.isNil
        /\ DOMAIN rt.harResponseCache = {}
        /\ DOMAIN rt.harFiles = {}

\* C7: after any number of HashRequest / RequestToBuff calls the original
\* request has the method, URL and headers it had, and its body still yields
\* the bytes it held, whatever the filters did to the clone.
C7_OriginalLeftIntact ==
    /\ reqObj.Method = req0.Method
    /\ reqObj.URL = req0.URL
    /\ reqObj.Header = req0.Header
    /\ reqObj.Body.isNil = req0.Body.isNil
    /\ ReadFrom(reqObj.Body) = ReadFrom(req0.Body)

C7_Witness ==
    /\ Len(results) >= 2
    /\ results[1].op = "HashRequest" /\ results[1].err.isNil
    /\ results[2].op = "RequestToBuff"
    /\ req0.Body.data = <<1, 2>>
    /\ \E i, j \in DOMAIN filterArgs :
          /\ filterArgs[i].op = "SetBody"
          /\ filterArgs[j].op = "Del" /\ filterArgs[j].key \in DOMAIN req0.Header

\* Another request with the same method, URL, headers and body.
EqualRequest(r) ==
    [Method |-> r.Method, URL |-> r.URL, Header |-> r.Header,
     Body |-> IF r.Body.isNil THEN NilBody ELSE Stream(r.Body.data)]

NeverHad(r, H) == [r EXCEPT !.Header = [n \in (DOMAIN r.Header) \ {H} |-> r.Header[n]]]

C10_RoundTripLeavesCache ==
    /\ pc = "ready" => rt = NewReplayTransport(opts).rt
    /\ (kept.made /\ call.made /\ call.given = kept.given /\ ~kept.response.isNil) =>
          /\ call.err.isNil
          /\ call.response = kept.response
          /\ call.response.Body = Stream(DecodeString(
                 rt.harResponseCache[call.hashKey].Response.Content.Text))

C10_Witness ==
    /\ kept.made /\ call.made /\ call.later
    /\ call.given = kept.given
    /\ ~kept.response.isNil
    /\ ~call.response.isNil
    /\ rt.requestFilters # <<>>

\* The entries option o reads, in the order it reads them.
RECURSIVE DirectoryEntries(_)
DirectoryEntries(paths) ==
    IF paths = <<>> THEN <<>>
    ELSE IF ~IsHarPath(Head(paths)) THEN DirectoryEntries(Tail(paths))
    ELSE IF ~FileSystem(Head(paths)).ok THEN <<>>
    ELSE FileSystem(Head(paths)).Entries \o DirectoryEntries(Tail(paths))

SourceEntries(o) ==
    CASE o.opt = "WithHarFile" -> FileSystem(o.filename).Entries
      [] o.opt = "WithHarDir"  -> DirectoryEntries(Directory(o.dirname))
      [] OTHER                 -> <<>>

\* The recorded interactions in the order the options load them, each with
\* the fingerprint it has under the filters registered before its source;
\* entries without fingerprint are left out.
RECURSIVE KeyedEntries(_, _)
KeyedEntries(entries, filters) ==
    IF entries = <<>> THEN <<>>
    ELSE LET h == HashRequest(RequestFactory(Head(entries).Request), filters)
         IN  (IF h.err.isNil THEN <<[key |-> h.hashKey, entry |-> Head(entries)]>>
              ELSE <<>>)
             \o KeyedEntries(Tail(entries), filters)

RECURSIVE LoadedUpTo(_, _)
LoadedUpTo(os, i) ==
    IF i = 0 THEN <<>>
    ELSE LoadedUpTo(os, i - 1)
         \o KeyedEntries(SourceEntries(os[i]), FiltersOf(SubSeq(os, 1, i - 1)))

Loaded(os) == LoadedUpTo(os, Len(os))

\* No source fails to load and every entry has a fingerprint.
CleanSources(os) ==
    \A i \in DOMAIN os :
        /\ ~SourceFails(os[i])
        /\ \A j \in DOMAIN SourceEntries(os[i]) :
              HashRequest(RequestFactory(SourceEntries(os[i])[j].Request),
                          FiltersOf(SubSeq(os, 1, i - 1))).err.isNil

\* C11: interactions with the same fingerprint are no error of the build, and
\* after a build without error the cache maps every fingerprint to the
\* interaction loaded last under it, in option order and entry order.
C11_LastWriteWins ==
    pc = "ready" =>
        LET L == Loaded(opts)
        IN  /\ CleanSources(opts) => err.isNil
            /\ err.isNil =>
                  /\ DOMAIN rt.harResponseCache = {L[i].key : i \in DOMAIN L}
                  /\ \A i \in DOMAIN L :
                        (\A j \in DOMAIN L : j > i => L[j].key # L[i].key) =>
                            rt.harResponseCache[L[i].key] = L[i].entry

C11_Witness ==
    /\ pc = "ready" /\ err.isNil /\ CleanSources(opts)
    /\ Len(opts) = 2 /\ opts[2].opt = "WithHarDir"
    /\ \E i, j \in DOMAIN Loaded(opts) :
          /\ i < j
          /\ Loaded(opts)[i].key = Loaded(opts)[j].key
          /\ Loaded(opts)[i].entry.Response.Status = 200
          /\ Loaded(opts)[j].entry.Response.Status = 404
    /\ \E i, j \in DOMAIN Loaded(opts) :
          /\ i < j
          /\ Loaded(opts)[i].key = Loaded(opts)[j].key
          /\ Loaded(opts)[i].entry.Response.Status = 201
          /\ Loaded(opts)[j].entry.Response.Status = 500

\* C12: RoundTrip calls running concurrently on a transport built
\* beforehand, each with its own request, end for every request as the same
\* call alone does: the same response, the same error (for a diagnostic
\* report, one the call alone can give), the request left the same; and the
\* transport stays as built, whatever the interleaving of the calls' steps.
C12_ConcurrentAsSequential ==
    LET built == NewReplayTransport(opts).rt
    IN  /\ rt = built
        /\ \A i \in DOMAIN procs :
              procs[i].at = "done" =>
                  \E order \in MapOrders(built) :
                      LET alone == RoundTrip(built, procs[i].given, order)
                      IN  /\ procs[i].response = alone.response
                          /\ procs[i].err = alone.err
                          /\ procs[i].request = alone.request

C12_Witness ==
    /\ procs # <<>>
    /\ \A i \in DOMAIN procs : procs[i].at = "done"
    /\ \E i, j \in DOMAIN procs :
          /\ i # j
          /\ procs[i].given = procs[j].given
          /\ ~procs[i].response.isNil
          /\ ~procs[j].response.isNil

\* C13: when the body of the request presented cannot be read to its end,
\* HashRequest returns a non-nil error and no fingerprint of the bytes read
\* before the read error.
C13_ReadErrorSurfaced ==
    (/\ req0.Body.fail
     /\ results # <<>>
     /\ results[1].op = "HashRequest") =>
        /\ ~results[1].err.isNil
        /\ results[1].hashKey = EmptyKey

\* C14: SingleResponseTransport.RoundTrip returns, for every request, a nil
\* request included, and after any number of earlier calls whose responses
\* were read or not, a nil error and the response of its entry: the entry's
\* status and headers and a body of its own that reads in full.
C14_SingleResponseIgnoresRequest ==
    single.made =>
        LET r    == single.transport.entry.Response
            body == DecodeString(r.Content.Text)
        IN  /\ single.err.isNil
            /\ ~single.response.isNil
            /\ single.response.StatusCode = r.Status
            /\ single.response.Header = ToHTTPHeader(r.Headers)
            /\ single.response.ContentLength = Len(body)
            /\ ~single.closed => single.response.Body = Stream(body)
            /\ single.closed => single.read = body

C14_Witness ==
    /\ single.made
    /\ single.calls = 2
    /\ single.given = NilRequest
    /\ single.closed
    /\ single.read # <<>>

\* The canonical form of a request under the transport's filters.
CanonicalForm(request) == RequestToBuff(request, rt.requestFilters).buff

\* C15: on a miss with the diagnostic hook the report has exactly one section
\* per cache entry, and the section of an entry holds its cached key, its
\* canonical request form, the fingerprint and the canonical form of the
\* failing request (the form that fingerprint is the digest of) and the diff
\* of the two forms; so every cached key is in the report.
C15_ReportHasSectionPerEntry ==
    (Miss /\ rt.debugger) =>
        LET report   == call.err.report
            incoming == CanonicalForm(ApplyFilters(call.given, rt.requestFilters))
        IN  /\ Len(report) = Cardinality(DOMAIN rt.harResponseCache)
            /\ Sha256Hex(incoming) = call.hashKey
            /\ \A k \in DOMAIN rt.harResponseCache :
                  LET cached == CanonicalForm(RequestFactory(rt.harResponseCache[k].Request))
                  IN  /\ \E i \in DOMAIN report :
                            report[i] = [cacheKey |-> k,
                                         cached   |-> cached,
                                         reqKey   |-> call.hashKey,
                                         incoming |-> incoming,
                                         diff     |-> Diff(cached, incoming)]
                      /\ ErrorContains(call.err, k)

C15_Witness ==
    /\ Miss /\ rt.debugger
    /\ Cardinality(DOMAIN rt.harResponseCache) >= 2
    /\ Len(call.err.report) >= 2

\* C16: two misses of the same request on the same transport with the
\* diagnostic hook return the same error text, sections in the same order.
C16_ReportDeterministic ==
    (/\ rt.debugger
     /\ Miss
     /\ kept.made
     /\ kept.hashKey # EmptyKey
     /\ kept.given = call.given) =>
        call.err = kept.err

\* The request the middleware records for the one it was given: its copy
\* with the URL the URLMapper gives.
RecordedRequest(request) ==
    IF mw.params.URLMapper.isNil THEN request
    ELSE [request EXCEPT !.URL = URLMapper(mw.params.URLMapper, request)]

\* When the next handler runs, the record directory holds the file named by
\* the fingerprint of the last request, with its canonical form as content.
FileRecorded ==
    LET r        == RecordedRequest(mw.given)
        checksum == HashRequest(r, mw.params.RequestFilters).hashKey
        filename == <<checksum, ".req">>
    IN  /\ filename \in DOMAIN mw.next.files
        /\ mw.next.files[filename] = RequestToBuff(r, mw.params.RequestFilters).buff
        /\ Sha256Hex(mw.next.files[filename]) = checksum

\* C17 as stated: with the middleware enabled, for every request it handles
\* the file <fingerprint>.req is in the record directory when the next
\* handler runs, its content the canonical form of the request.
C17_EveryRequestRecorded ==
    (mw.made /\ mw.params.Enabled) => FileRecorded

\* C17 amended: with the middleware enabled, for every request it handles
\* whose fingerprint HashRequest can compute (after URLMapper and
\* RequestFilters) and whose file can be written, the file <fingerprint>.req
\* is in the record directory when the next handler runs, its content the
\* canonical form of the request and its name the digest of its content, the
\* fingerprint a function of the request and the params alone; otherwise the
\* middleware logs the error; the next handler runs with the request as it
\* was given in every case.
C17_HashableRequestRecorded ==
    (mw.made /\ mw.params.Enabled) =>
        LET h == HashRequest(RecordedRequest(mw.given), mw.params.RequestFilters)
        IN  /\ (h.err.isNil /\ mw.disk = "ok") => (FileRecorded /\ mw.logged = <<>>)
            /\ (~h.err.isNil \/ mw.disk # "ok") => mw.logged # <<>>
            /\ mw.next.request = mw.given
            /\ mw.files = mw.next.files

C17_Witness ==
    /\ mw.made /\ mw.params.Enabled
    /\ mw.calls >= 2
    /\ mw.disk = "ok"
    /\ ~mw.params.URLMapper.isNil
    /\ mw.params.RequestFilters # <<>>
    /\ mw.given.URL.Scheme = ""
    /\ ~mw.given.Body.isNil
    /\ FileRecorded
    /\ Cardinality(DOMAIN mw.files) >= 2

\* The header list hs with the headers at i and i + 1 exchanged.
Exchanged(hs, i) ==
    [n \in DOMAIN hs |-> IF n = i THEN hs[i + 1] ELSE IF n = i + 1 THEN hs[i] ELSE hs[n]]

\* The fingerprint of the recording whose request is tmpl with the headers hs.
TemplateKey(tmpl, hs) ==
    HashRequest(RequestFactory([tmpl EXCEPT !.Headers = hs]), <<>>).hashKey

\* C18 as stated: recordings that carry the same headers with two headers of
\* different names exchanged have different fingerprints.
C18_HeaderOrderChangesKey ==
    har.at = "hashed" =>
        \A i \in 1..(Len(har.tmpl.Headers) - 1) :
            har.tmpl.Headers[i].Name # har.tmpl.Headers[i + 1].Name =>
                TemplateKey(har.tmpl, Exchanged(har.tmpl.Headers, i))
                    # TemplateKey(har.tmpl, har.tmpl.Headers)

\* C18 amended: the order of headers with different names is not part of the
\* canonical form: recordings that differ in it have the same fingerprint,
\* and a filter that takes headers out and adds them back in another order
\* of names leaves the fingerprint as it is; the order of the values of one
\* name is part of it.
C18_OnlyValueOrderChangesKey ==
    har.at = "hashed" =>
        /\ har.err.isNil
        /\ har.hashKey = TemplateKey(har.tmpl, har.tmpl.Headers)
        /\ \A i \in 1..(Len(har.tmpl.Headers) - 1) :
              LET a == har.tmpl.Headers[i]
                  b == har.tmpl.Headers[i + 1]
                  k == TemplateKey(har.tmpl, Exchanged(har.tmpl.Headers, i))
              IN  /\ a.Name # b.Name => k = har.hashKey
                  /\ (a.Name = b.Name /\ a.Value # b.Value) => k # har.hashKey

C18_Witness ==
    /\ har.at = "hashed"
    /\ har.filters # <<>>
    /\ Len(har.tmpl.Headers) = 3
    /\ har.tmpl.Headers[1].Name = "X-One"
    /\ har.tmpl.Headers[2].Name = "Accept"
    /\ har.tmpl.Headers[3].Name = "Accept"
    /\ har.tmpl.Headers[2].Value # har.tmpl.Headers[3].Value

\* The bytes a recorded content stands for under its declared encoding.
DeclaredContent(content) ==
    IF content.Encoding = "base64" THEN DecodeString(content.Text) ELSE content.Text

\* C19: on a hit the body of the response is the recorded content decoded as
\* its encoding declares, base64 decoded and plain text as recorded, and
\* ContentLength is the length of that body.
C19_BodyDecodedAsDeclared ==
    (call.made /\ ~call.response.isNil /\ call.hashKey \in DOMAIN rt.harResponseCache) =>
        LET content == rt.harResponseCache[call.hashKey].Response.Content
        IN  /\ ReadFrom(call.response.Body) = DeclaredContent(content)
            /\ call.response.ContentLength = Len(DeclaredContent(content))

\* No source option follows the recorder's registration.
NoSourceAfterRecorder(os) ==
    \A i, j \in DOMAIN os :
        (os[i] = RecorderOption /\ os[j] \in SourceOptions) => j < i

\* C20: with a recorder registered and no source loaded after it, the
\* recorder holds exactly as many records as RoundTrip calls were made, hit
\* or miss.
C20_OneRecordPerRoundTrip ==
    (pc = "ready" /\ err.isNil /\ NoSourceAfterRecorder(opts)
        /\ \E i \in DOMAIN opts : opts[i] = RecorderOption) =>
        Len(recorder.rec.requests) = recorder.calls

\* The number of records the calls 1..i appended.
RECURSIVE AppendedUpTo(_)
AppendedUpTo(i) ==
    IF i = 0 THEN 0 ELSE AppendedUpTo(i - 1) + Len(procs[i].appended)

\* The number of times the record d stands in the list.
Occurrences(list, d) == Cardinality({n \in DOMAIN list : list[n] = d})

\* C21: once all concurrent RoundTrip calls on a transport with a recorder
\* have returned, the recorder's list holds the records of the build and
\* every record each call appended, none overwritten or dropped.
C21_NoRecordLost ==
    (procs # <<>> /\ \A i \in DOMAIN procs : procs[i].at = "done") =>
        LET built == ApplyOptionsRecords(NewRequestRecorder, EmptyTransport, opts).requests
        IN  /\ Len(recorder.rec.requests) = Len(built) + AppendedUpTo(Len(procs))
            /\ \A i \in DOMAIN procs :
                  \A n \in DOMAIN procs[i].appended :
                      Occurrences(recorder.rec.requests, procs[i].appended[n]) >= 1

====
